---- MODULE Spec2Model ----
(*
  Model of the accvaults redeem backend:
    link_validator.py   LinkValidator (PATTERNS, detect_link_type)
    redeem_db.py        RedeemDatabase (codes table, redemption_history table)
    smb_panel.py        SMBApiClient (order gateway)
    app.py              Flask handlers (redeem, validate-code, ...)

  Strings are TLA+ strings; a character is a string of length 1 obtained with
  SubSeq(s, i, i).  Python values whose shape matters to the callers
  (a bare bool, a 2-tuple, None) are records with a "kind" field.
  The cross-mark character U+274C that starts the validator's rejection
  messages is written "[X]".
*)
EXTENDS Integers, Sequences, FiniteSets, TLC

VARIABLES
    now,        \* value of datetime.utcnow(), in ticks
    codes,      \* table "codes": code value -> row
    history,    \* table "redemption_history": rows in insertion (id) order
    orders,     \* orders created at the remote gateway, in creation order
    reqs,       \* HTTP requests: position in the handler, locals, response
    lv,         \* one call of LinkValidator.detect_link_type: inputs, result
    env,        \* the configuration read from the environment at start-up
    adm,        \* one request to an admin endpoint: inputs, what it touched, response
    wh,         \* one request to the webhook endpoint: inputs, what it did, response
    cl,         \* calls of SMBApiClient operations: log of calls, HTTP requests sent
    sr,         \* one request to the search endpoint: inputs, gateway list, response
    sv,         \* one request to the services listing: gateway outcome, response
    ur,         \* one request to the user-redemptions listing: inputs, response
    gen         \* one run of generate_codes: position in the loop, locals

vars == <<now, codes, history, orders, reqs, lv, env, adm, wh, cl, sr, sv, ur, gen>>

-----------------------------------------------------------------------------
(* Python str helpers                                                      *)

UpperAlpha == "ABCDEFGHIJKLMNOPQRSTUVWXYZ"
LowerAlpha == "abcdefghijklmnopqrstuvwxyz"
DigitChars == "0123456789"

CharsOf(s) == { SubSeq(s, i, i) : i \in 1..Len(s) }

UpperSet == CharsOf(UpperAlpha)
LowerSet == CharsOf(LowerAlpha)
DigitSet == CharsOf(DigitChars)
Whitespace == {" ", "\t"}

IndexIn(alpha, c) == CHOOSE i \in 1..Len(alpha) : SubSeq(alpha, i, i) = c

LowerChar(c) == IF c \in UpperSet THEN SubSeq(LowerAlpha, IndexIn(UpperAlpha, c), IndexIn(UpperAlpha, c)) ELSE c
UpperChar(c) == IF c \in LowerSet THEN SubSeq(UpperAlpha, IndexIn(LowerAlpha, c), IndexIn(LowerAlpha, c)) ELSE c

RECURSIVE lower(_)
lower(s) == IF s = "" THEN "" ELSE LowerChar(Head(s)) \o lower(Tail(s))

RECURSIVE upper(_)
upper(s) == IF s = "" THEN "" ELSE UpperChar(Head(s)) \o upper(Tail(s))

RECURSIVE lstrip(_)
lstrip(s) == IF s # "" /\ Head(s) \in Whitespace THEN lstrip(Tail(s)) ELSE s

RECURSIVE rstrip(_)
rstrip(s) == IF s # "" /\ SubSeq(s, Len(s), Len(s)) \in Whitespace THEN rstrip(SubSeq(s, 1, Len(s) - 1)) ELSE s

strip(s) == rstrip(lstrip(s))

\* Python "sub in s"
Contains(s, sub) == \E i \in 0..(Len(s) - Len(sub)) : SubSeq(s, i + 1, i + Len(sub)) = sub

-----------------------------------------------------------------------------
(* Python values returned to callers that destructure them                 *)

PyTuple(b, m) == [kind |-> "tuple", b |-> b, msg |-> m]
PyBool(b) == [kind |-> "bool", b |-> b, msg |-> ""]
PyNone == [kind |-> "none", b |-> FALSE, msg |-> ""]

\* "a, b = v" succeeds only on an iterable of length 2
Unpackable(v) == v.kind = "tuple"

UnpackError(v) == IF v.kind = "bool" THEN "cannot unpack non-iterable bool object" ELSE "cannot unpack non-iterable NoneType object"

-----------------------------------------------------------------------------
(* Regular expressions of LinkValidator.PATTERNS                           *)

Lit(s) == [op |-> "lit", s |-> s]
Cls(S) == [op |-> "cls", set |-> S]
Opt(r) == [op |-> "opt", r |-> r]
Plus(r) == [op |-> "plus", r |-> r]
Star(r) == [op |-> "star", r |-> r]
Cat(rs) == [op |-> "cat", rs |-> rs]
Alt(rs) == [op |-> "alt", rs |-> rs]
Eos == [op |-> "eos"]

WordChars == UpperSet \cup LowerSet \cup DigitSet \cup {"_"}    \* \w
WordDash == WordChars \cup {"-"}                                \* [\w-]
WordDot == WordChars \cup {"."}                                 \* [\w.]
WordDotDash == WordChars \cup {".", "-"}                        \* [\w.-]

Scheme == Opt(Cat(<<Lit("http"), Opt(Lit("s")), Lit("://")>>))  \* (?:https?://)?
Www == Opt(Lit("www."))                                         \* (?:www\.)?

\* (?:https?://)?(?:www\.)?<host><rest>
Site(host, rest) == Cat(<<Scheme, Www, Lit(host)>> \o rest)
\* (?:https?://)?<host><rest>
Bare(host, rest) == Cat(<<Scheme, Lit(host)>> \o rest)

RECURSIVE Ends(_, _, _), PlusEnds(_, _, _), CatEnds(_, _, _, _)
\* positions of s (0..Len(s)) at which a match of r that started at a
\* position of P can end; literals compare case-insensitively (re.IGNORECASE)
Ends(r, s, P) ==
    CASE r.op = "lit" -> { p + Len(r.s) : p \in { q \in P : q + Len(r.s) <= Len(s) /\ lower(SubSeq(s, q + 1, q + Len(r.s))) = r.s } }
      [] r.op = "cls" -> { p + 1 : p \in { q \in P : q < Len(s) /\ SubSeq(s, q + 1, q + 1) \in r.set } }
      [] r.op = "opt" -> P \cup Ends(r.r, s, P)
      [] r.op = "plus" -> PlusEnds(r.r, s, Ends(r.r, s, P))
      [] r.op = "star" -> P \cup PlusEnds(r.r, s, Ends(r.r, s, P))
      [] r.op = "cat" -> CatEnds(r.rs, 1, s, P)
      [] r.op = "alt" -> UNION { Ends(r.rs[i], s, P) : i \in DOMAIN r.rs }
      [] r.op = "eos" -> { p \in P : p = Len(s) }

PlusEnds(r, s, Q) ==
    LET N == Ends(r, s, Q)
    IN IF N \subseteq Q THEN Q ELSE PlusEnds(r, s, Q \cup N)

CatEnds(rs, i, s, P) ==
    IF i > Len(rs) \/ P = {} THEN P ELSE CatEnds(rs, i + 1, s, Ends(rs[i], s, P))

\* re.search in place of re.match: a match may start anywhere
re_search(r, s) == Ends(r, s, 0..Len(s)) # {}

\* re.match(pattern, link, re.IGNORECASE): anchored at the start only
re_match(r, s) == Ends(r, s, {0}) # {}

PATTERNS ==
    [ youtube_channel |-> <<
          Site("youtube.com/@", <<Plus(Cls(WordDash))>>),
          Site("youtube.com/channel/", <<Plus(Cls(WordDash))>>),
          Site("youtube.com/c/", <<Plus(Cls(WordDash))>>),
          Site("youtube.com/user/", <<Plus(Cls(WordDash))>> ) >>,
      youtube_video |-> <<
          Site("youtube.com/watch?v=", <<Plus(Cls(WordDash))>>),
          Bare("youtu.be/", <<Plus(Cls(WordDash))>>) >>,
      youtube_shorts |-> <<
          Site("youtube.com/shorts/", <<Plus(Cls(WordDash))>>) >>,
      instagram_profile |-> <<
          Site("instagram.com/", <<Plus(Cls(WordDot)), Opt(Lit("/")), Eos>>) >>,
      instagram_post |-> <<
          Site("instagram.com/p/", <<Plus(Cls(WordDash))>>),
          Site("instagram.com/reel/", <<Plus(Cls(WordDash))>>) >>,
      tiktok_profile |-> <<
          Site("tiktok.com/@", <<Plus(Cls(WordDot))>>) >>,
      tiktok_video |-> <<
          Site("tiktok.com/@", <<Plus(Cls(WordDot)), Lit("/video/"), Plus(Cls(DigitSet))>>) >>,
      facebook_profile |-> <<
          Site("facebook.com/", <<Plus(Cls(WordDot))>>) >>,
      facebook_page |-> <<
          Site("facebook.com/pages/", <<Plus(Cls(WordDash)), Lit("/"), Plus(Cls(DigitSet))>>) >>,
      twitter_profile |-> <<
          Cat(<<Scheme, Www, Alt(<<Lit("twitter"), Lit("x")>>), Lit(".com/"), Plus(Cls(WordChars)), Opt(Lit("/")), Eos>>) >>,
      twitter_tweet |-> <<
          Cat(<<Scheme, Www, Alt(<<Lit("twitter"), Lit("x")>>), Lit(".com/"), Plus(Cls(WordChars)), Lit("/status/"), Plus(Cls(DigitSet))>>) >>,
      telegram |-> <<
          Bare("t.me/", <<Plus(Cls(WordChars))>>) >>,
      twitch |-> <<
          Site("twitch.tv/", <<Plus(Cls(WordChars))>>) >>,
      kick |-> <<
          Site("kick.com/", <<Plus(Cls(WordChars))>>) >>,
      snapchat |-> <<
          Site("snapchat.com/add/", <<Plus(Cls(WordDot))>>) >>,
      threads |-> <<
          Site("threads.net/@", <<Plus(Cls(WordDot))>>) >>,
      reddit_profile |-> <<
          Site("reddit.com/user/", <<Plus(Cls(WordDash))>>) >>,
      reddit_post |-> <<
          Site("reddit.com/r/", <<Plus(Cls(WordChars)), Lit("/comments/"), Plus(Cls(WordChars)), Lit("/")>>) >>,
      linkedin_profile |-> <<
          Site("linkedin.com/in/", <<Plus(Cls(WordDash))>>) >>,
      linkedin_company |-> <<
          Site("linkedin.com/company/", <<Plus(Cls(WordDash))>>) >>,
      spotify_artist |-> <<
          Bare("open.spotify.com/artist/", <<Plus(Cls(WordChars))>>) >>,
      spotify_track |-> <<
          Bare("open.spotify.com/track/", <<Plus(Cls(WordChars))>>) >>,
      spotify_playlist |-> <<
          Bare("open.spotify.com/playlist/", <<Plus(Cls(WordChars))>>) >>,
      generic_url |-> <<
          Cat(<<Scheme, Www, Plus(Cls(WordDotDash)), Lit("."), Cls(WordChars), Cls(WordChars), Star(Cls(WordChars)),
                Star(Cat(<<Lit("/"), Star(Cls(WordDotDash))>>))>>) >> ]

\* "for pattern in <patterns>: if re.match(pattern, link, re.IGNORECASE): return True, ..."
AnyMatch(patterns, link) == \E i \in DOMAIN patterns : re_match(patterns[i], link)


-----------------------------------------------------------------------------
(* LinkValidator.detect_link_type                                          *)

\* the if/elif chain of detect_link_type, applied to the stripped link
link_type_chain(link, platform, service_type) ==
    LET P == PATTERNS
    IN
    IF platform = "youtube" THEN
        IF service_type \in {"subscribers", "subscriber"} THEN
            IF AnyMatch(P.youtube_channel, link) THEN PyTuple(TRUE, "Valid YouTube channel link")
            ELSE PyTuple(FALSE, "[X] Invalid link. YouTube Subscribers require a channel link (youtube.com/@username or /channel/ID)")
        ELSE IF service_type \in {"views", "view", "likes", "like", "comments", "comment"} THEN
            IF AnyMatch(P.youtube_video, link) THEN PyTuple(TRUE, "Valid YouTube video link")
            ELSE PyTuple(FALSE, "[X] Invalid link. YouTube Views/Likes require a video link (youtube.com/watch?v=...)")
        ELSE IF Contains(lower(service_type), "shorts") THEN
            IF AnyMatch(P.youtube_shorts, link) THEN PyTuple(TRUE, "Valid YouTube Shorts link")
            ELSE PyTuple(FALSE, "[X] Invalid link. YouTube Shorts require a shorts link (youtube.com/shorts/...)")
        ELSE IF Contains(lower(service_type), "live") THEN
            IF AnyMatch(P.youtube_video \o P.youtube_channel, link) THEN PyTuple(TRUE, "Valid YouTube link")
            ELSE PyTuple(FALSE, "[X] Invalid link. Provide a YouTube video or channel link")
        ELSE PyNone     \* no branch taken: the function falls off its end
    ELSE IF platform = "instagram" THEN
        IF service_type \in {"followers", "follower"} THEN
            IF AnyMatch(P.instagram_profile, link) THEN PyTuple(TRUE, "Valid Instagram profile link")
            ELSE PyTuple(FALSE, "[X] Invalid link. Instagram Followers require a profile link (instagram.com/username)")
        ELSE IF service_type \in {"likes", "like", "views", "view", "comments", "comment"} THEN
            IF AnyMatch(P.instagram_post, link) THEN PyTuple(TRUE, "Valid Instagram post/reel link")
            ELSE PyTuple(FALSE, "[X] Invalid link. Provide an Instagram post or reel link (instagram.com/p/... or /reel/...)")
        ELSE PyNone
    ELSE IF platform = "tiktok" THEN
        IF service_type \in {"followers", "follower"} THEN
            IF AnyMatch(P.tiktok_profile, link) THEN PyTuple(TRUE, "Valid TikTok profile link")
            ELSE PyTuple(FALSE, "[X] Invalid link. TikTok Followers require a profile link (tiktok.com/@username)")
        ELSE IF service_type \in {"likes", "like", "views", "view", "comments", "comment"} THEN
            IF AnyMatch(P.tiktok_video, link) THEN PyTuple(TRUE, "Valid TikTok video link")
            ELSE IF AnyMatch(P.tiktok_profile, link) THEN PyTuple(TRUE, "Valid TikTok link")
            ELSE PyTuple(FALSE, "[X] Invalid link. Provide a TikTok video link (tiktok.com/@user/video/...)")
        ELSE PyNone
    ELSE IF platform \in {"twitter", "x"} THEN
        IF service_type \in {"followers", "follower"} THEN
            IF AnyMatch(P.twitter_profile, link) THEN PyTuple(TRUE, "Valid Twitter/X profile link")
            ELSE PyTuple(FALSE, "[X] Invalid link. Twitter Followers require a profile link (twitter.com/username or x.com/username)")
        ELSE IF service_type \in {"likes", "like", "retweets", "retweet", "views", "view"} THEN
            IF AnyMatch(P.twitter_tweet, link) THEN PyTuple(TRUE, "Valid Twitter/X tweet link")
            ELSE PyTuple(FALSE, "[X] Invalid link. Provide a tweet link (twitter.com/user/status/...)")
        ELSE PyNone
    ELSE IF platform = "facebook" THEN
        IF AnyMatch(P.facebook_profile \o P.facebook_page, link) THEN PyTuple(TRUE, "Valid Facebook link")
        ELSE PyTuple(FALSE, "[X] Invalid link. Provide a Facebook profile or page link")
    ELSE IF platform = "telegram" THEN
        IF AnyMatch(P.telegram, link) THEN PyTuple(TRUE, "Valid Telegram link")
        ELSE PyTuple(FALSE, "[X] Invalid link. Provide a Telegram link (t.me/username)")
    ELSE IF platform = "twitch" THEN
        IF AnyMatch(P.twitch, link) THEN PyTuple(TRUE, "Valid Twitch link")
        ELSE PyTuple(FALSE, "[X] Invalid link. Provide a Twitch channel link (twitch.tv/username)")
    ELSE IF platform = "kick" THEN
        IF AnyMatch(P.kick, link) THEN PyTuple(TRUE, "Valid Kick link")
        ELSE PyTuple(FALSE, "[X] Invalid link. Provide a Kick channel link (kick.com/username)")
    ELSE IF platform = "snapchat" THEN
        IF AnyMatch(P.snapchat, link) THEN PyTuple(TRUE, "Valid Snapchat link")
        ELSE PyTuple(FALSE, "[X] Invalid link. Provide a Snapchat profile link (snapchat.com/add/username)")
    ELSE IF platform = "threads" THEN
        IF AnyMatch(P.threads, link) THEN PyTuple(TRUE, "Valid Threads link")
        ELSE PyTuple(FALSE, "[X] Invalid link. Provide a Threads profile link (threads.net/@username)")
    ELSE IF platform = "reddit" THEN
        IF service_type \in {"followers", "follower", "karma"} THEN
            IF AnyMatch(P.reddit_profile, link) THEN PyTuple(TRUE, "Valid Reddit profile link")
            ELSE PyTuple(FALSE, "[X] Invalid link. Provide a Reddit profile link (reddit.com/user/username)")
        ELSE
            IF AnyMatch(P.reddit_post, link) THEN PyTuple(TRUE, "Valid Reddit post link")
            ELSE PyTuple(FALSE, "[X] Invalid link. Provide a Reddit post link")
    ELSE IF platform = "linkedin" THEN
        IF AnyMatch(P.linkedin_profile \o P.linkedin_company, link) THEN PyTuple(TRUE, "Valid LinkedIn link")
        ELSE PyTuple(FALSE, "[X] Invalid link. Provide a LinkedIn profile or company link")
    ELSE IF platform = "spotify" THEN
        IF AnyMatch(P.spotify_artist \o P.spotify_track \o P.spotify_playlist, link) THEN PyTuple(TRUE, "Valid Spotify link")
        ELSE PyTuple(FALSE, "[X] Invalid link. Provide a Spotify artist, track, or playlist link")
    ELSE
        IF AnyMatch(P.generic_url, link) THEN PyTuple(TRUE, "Valid URL")
        ELSE PyTuple(FALSE, "[X] Invalid URL format")

\* the platform compared without regard to case
detect_link_type_anycase(link, platform, service_type) == link_type_chain(strip(link), lower(platform), service_type)

\* "link = link.strip()", then the chain
detect_link_type(link, platform, service_type) == link_type_chain(strip(link), platform, service_type)

-----------------------------------------------------------------------------
(* Inputs of the link-validator specification                              *)

SampleLinks ==
    { "https://youtube.com/@someuser", "https://youtube.com/watch?v=xyz",
      "  https://www.youtube.com/channel/UC_x-1  ", "HTTPS://YOUTUBE.COM/@SomeUser",
      "see https://youtube.com/@someuser", "https://youtube.com/@", "youtu.be/abc",
      "http://youtube.com/shorts/a1", "https://youtube.com/@someuser/videos",
      "instagram.com/user.name/", "https://instagram.com/p/Cx1", "https://instagram.com/user/extra",
      "https://www.tiktok.com/@u.ser/video/123", "tiktok.com/@user",
      "https://x.com/user", "https://twitter.com/user/status/42",
      "facebook.com/pages/my-page/12", "t.me/chan", "twitch.tv/streamer", "kick.com/streamer",
      "snapchat.com/add/a.b", "threads.net/@a", "reddit.com/user/a-b",
      "https://reddit.com/r/sub/comments/abc/", "linkedin.com/in/a-b", "linkedin.com/company/acme",
      "open.spotify.com/track/abc", "example.com", "not a url", "localhost", "" }

SamplePlatforms ==
    { "youtube", "instagram", "tiktok", "twitter", "x", "facebook", "telegram", "twitch", "kick",
      "snapchat", "threads", "reddit", "linkedin", "spotify",
      "YouTube", "Instagram", "pinterest", "" }

SampleServiceTypes ==
    { "subscribers", "subscriber", "views", "likes", "comment", "shorts", "Shorts Views",
      "live", "Live Stream", "followers", "follower", "retweets", "karma", "watchtime", "" }

-----------------------------------------------------------------------------
(* RedeemDatabase: tables "codes" and "redemption_history"                 *)

TicksPerDay == 2            \* clock ticks in timedelta(days=1)
NullInt == -1               \* SQL NULL / Python None in an integer or timestamp position
NullText == "<NULL>"        \* SQL NULL / Python None in a text position

\* what get_code returns for a missing row (None), in the shape of a row
NoneRow ==
    [ service_id |-> NullInt, quantity |-> NullInt, platform |-> NullText, service_type |-> NullText,
      requirements |-> NullText, status |-> NullText, created_date |-> NullInt, used_date |-> NullInt,
      used_by_user_id |-> NullText, order_id |-> NullInt, expiry_days |-> NullInt, has_refill |-> FALSE ]

\* INSERT INTO codes (...): status takes its DEFAULT 'unused', the used_* columns are NULL
NewRow(t, service_id, quantity, platform, service_type, requirements, expiry_days, has_refill) ==
    [ service_id |-> service_id, quantity |-> quantity, platform |-> platform, service_type |-> service_type,
      requirements |-> requirements, status |-> "unused", created_date |-> t, used_date |-> NullInt,
      used_by_user_id |-> NullText, order_id |-> NullInt, expiry_days |-> expiry_days, has_refill |-> has_refill ]

\* INSERT OR IGNORE in place of INSERT: a duplicate is skipped without an error
add_code_ignore(tbl, t, code, service_id, quantity, platform, service_type, requirements, expiry_days, has_refill) ==
    [ret |-> TRUE,
     codes |-> tbl @@ (code :> NewRow(t, service_id, quantity, platform, service_type, requirements, expiry_days, has_refill))]

\* INSERT OR REPLACE in place of INSERT: an existing row is overwritten
add_code_replace(tbl, t, code, service_id, quantity, platform, service_type, requirements, expiry_days, has_refill) ==
    [ret |-> TRUE,
     codes |-> (code :> NewRow(t, service_id, quantity, platform, service_type, requirements, expiry_days, has_refill)) @@ tbl]

\* add_code: the INSERT fails on the primary key when the code value exists;
\* the except branch returns False and the table is unchanged
add_code(tbl, t, code, service_id, quantity, platform, service_type, requirements, expiry_days, has_refill) ==
    IF code \in DOMAIN tbl
    THEN [ret |-> FALSE, codes |-> tbl]
    ELSE [ret |-> TRUE,
          codes |-> tbl @@ (code :> NewRow(t, service_id, quantity, platform, service_type, requirements, expiry_days, has_refill))]

get_code(tbl, code) == IF code \in DOMAIN tbl THEN tbl[code] ELSE NoneRow

\* ">=" in place of ">" in the expiry test
is_code_valid_ge(tbl, t, code) ==
    LET code_data == get_code(tbl, code)
    IN IF code_data = NoneRow THEN PyBool(FALSE)
       ELSE IF code_data.status # "unused" THEN PyBool(FALSE)
       ELSE IF t >= code_data.created_date + code_data.expiry_days * TicksPerDay THEN PyBool(FALSE)
       ELSE PyBool(TRUE)

\* is_code_valid returns a bare bool
is_code_valid(tbl, t, code) ==
    LET code_data == get_code(tbl, code)
    IN IF code_data = NoneRow THEN PyBool(FALSE)
       ELSE IF code_data.status # "unused" THEN PyBool(FALSE)
       ELSE IF t > code_data.created_date + code_data.expiry_days * TicksPerDay THEN PyBool(FALSE)
       ELSE PyBool(TRUE)

\* a compare-and-swap variant: UPDATE ... WHERE code = ? AND status = 'unused'
mark_code_used_cas(tbl, t, code, user_id, order_id) ==
    [ret |-> code \in DOMAIN tbl /\ tbl[code].status = "unused",
     codes |-> [c \in DOMAIN tbl |->
                  IF c = code /\ tbl[c].status = "unused"
                  THEN [tbl[c] EXCEPT !.status = "used", !.used_date = t, !.used_by_user_id = user_id, !.order_id = order_id]
                  ELSE tbl[c]]]

\* mark_code_used: UPDATE ... WHERE code = ?  (no condition on status; zero
\* rows updated is not an error)
mark_code_used(tbl, t, code, user_id, order_id) ==
    [ret |-> TRUE,
     codes |-> [c \in DOMAIN tbl |->
                  IF c = code
                  THEN [tbl[c] EXCEPT !.status = "used", !.used_date = t, !.used_by_user_id = user_id, !.order_id = order_id]
                  ELSE tbl[c]]]

\* add_redemption_history: INSERT with an auto-incremented id
add_redemption_history(hist, t, code, user_id, username, service_id, quantity, link, order_id) ==
    [ret |-> TRUE,
     history |-> Append(hist, [id |-> Len(hist) + 1, code |-> code, user_id |-> user_id, username |-> username,
                               service_id |-> service_id, quantity |-> quantity, link |-> link,
                               order_id |-> order_id, redeemed_date |-> t])]

-----------------------------------------------------------------------------
(* SMBApiClient.create_order                                               *)

\* what the one HTTP round trip yields: a payload with an order id, or a
\* payload with an 'error' key (sent by the panel, or built on transport failure)
GatewayOutcomes == {"order", "error"}

create_order(ords, outcome, service_id, link, quantity) ==
    IF outcome = "order"
    THEN [order |-> Len(ords) + 1, error |-> NullText,
          orders |-> Append(ords, [order |-> Len(ords) + 1, service |-> service_id, link |-> link, quantity |-> quantity])]
    ELSE [order |-> NullInt, error |-> "API request failed", orders |-> ords]

-----------------------------------------------------------------------------
(* smb_panel.py: SMBApiClient operations over HTTP                         *)

\* how one session.post(...) to the gateway can end
TransportFailures == {"timeout", "connection_error", "http_error_status"}
HttpOutcomes == {"json_object", "json_list", "json_error_object"} \cup TransportFailures

\* a value returned by the client: a dict (with or without an 'error' key)
\* or a list
PyDict(error) == [kind |-> "dict", error |-> error, len |-> 1]
PyList(n) == [kind |-> "list", error |-> NullText, len |-> n]

\* _make_request(action, data): one POST; a RequestException (timeout,
\* connection error, raise_for_status) becomes {'error': 'API request failed: ...'}
make_request(action, outcome) ==
    [ http_requests |-> 1,
      value |-> IF outcome \in TransportFailures THEN PyDict("API request failed: " \o outcome)
                ELSE IF outcome = "json_error_object" THEN PyDict("remote error")
                ELSE IF outcome = "json_list" THEN PyList(2)
                ELSE PyDict(NullText) ]

\* the operations of SMBApiClient; an operation that takes one id or a list
\* of ids has two forms
ClientOps ==
    { "get_balance", "get_services", "create_order", "get_order_status", "get_order_status[list]",
      "refill_order", "refill_order[list]", "get_refill_status", "get_refill_status[list]", "cancel_orders" }

\* the API action an operation posts
ApiAction(op) ==
    CASE op = "get_balance" -> "balance"
      [] op = "get_services" -> "services"
      [] op = "create_order" -> "add"
      [] op \in {"get_order_status", "get_order_status[list]"} -> "status"
      [] op \in {"refill_order", "refill_order[list]"} -> "refill"
      [] op \in {"get_refill_status", "get_refill_status[list]"} -> "refill_status"
      [] OTHER -> "cancel"

\* one call of an operation: every operation returns what _make_request
\* returns, except get_services: "result if isinstance(result, list) else []"
client_call(op, outcome) ==
    LET r == make_request(ApiAction(op), outcome)
    IN IF op = "get_services" /\ r.value.kind # "list"
       THEN [r EXCEPT !.value = PyList(0)]
       ELSE r

-----------------------------------------------------------------------------
(* app.py: responses and request state                                     *)

NoData ==
    [ order_id |-> NullInt, service_id |-> NullInt, quantity |-> NullInt, platform |-> NullText,
      service_type |-> NullText, requirements |-> NullText, has_refill |-> FALSE ]

\* create_response(success, message, data), paired with the HTTP status
\* (the envelope's timestamp is not modelled)
create_response(success, message, data, http) ==
    [success |-> success, message |-> message, data |-> data, http |-> http]

NoResp == [success |-> FALSE, message |-> "", data |-> NoData, http |-> 0]

\* "except Exception as e: return create_response(False, str(e)), 500"
error_500(text) == create_response(FALSE, text, NoData, 500)

IdleReq ==
    [ kind |-> "none", pc |-> "idle", code |-> "", link |-> "", user_id |-> "", username |-> "",
      code_data |-> NoneRow, order_id |-> NullInt, resp |-> NoResp ]

Done(q, resp) == [q EXCEPT !.pc = "done", !.resp = resp]

\* data.get(key, default): NullText stands for a key missing from the body
get_or(v, default) == IF v = NullText THEN default ELSE v

\* redeem_code up to the input check: read the body, normalise, reject empty fields
redeem_begin(body) ==
    LET code == upper(strip(get_or(body.code, "")))
        link == strip(get_or(body.link, ""))
        q == [IdleReq EXCEPT !.kind = "redeem", !.code = code, !.link = link,
                             !.user_id = get_or(body.user_id, "web_user"),
                             !.username = get_or(body.username, "Web User")]
    IN IF code = "" \/ link = ""
       THEN Done(q, create_response(FALSE, "Code and link are required", NoData, 200))
       ELSE [q EXCEPT !.pc = "check"]

\* validate_code up to the input check
validate_begin(body) ==
    LET code == upper(strip(get_or(body.code, "")))
        q == [IdleReq EXCEPT !.kind = "validate", !.code = code]
    IN IF code = ""
       THEN Done(q, create_response(FALSE, "Code is required", NoData, 200))
       ELSE [q EXCEPT !.pc = "check"]

\* the effect of one step of a handler on the request and on the shared state
Effect(q, tbl, hist, ords) == [req |-> q, codes |-> tbl, history |-> hist, orders |-> ords]

\* redeem_code, the validity step without its test: every code passes
redeem_check_skip(q, tbl, hist, ords, t) == Effect([q EXCEPT !.pc = "lookup"], tbl, hist, ords)

\* redeem_code, the validity step:
\*   is_valid, message = redeem_db.is_code_valid(code)
\*   if not is_valid: return create_response(False, message)
redeem_check(q, tbl, hist, ords, t) ==
    LET v == is_code_valid(tbl, t, q.code)
    IN IF ~Unpackable(v) THEN Effect(Done(q, error_500(UnpackError(v))), tbl, hist, ords)
       ELSE IF ~v.b THEN Effect(Done(q, create_response(FALSE, v.msg, NoData, 200)), tbl, hist, ords)
       ELSE Effect([q EXCEPT !.pc = "lookup"], tbl, hist, ords)

\* redeem_code after the input check, one step per access to the store or
\* the gateway:  check  = the validity step
\*               lookup = get_code and the link validation
\*               order  = smb_client.create_order
\*               mark   = redeem_db.mark_code_used
\*               history = redeem_db.add_redemption_history and the response
\* gw is the gateway's outcome, dbok whether the store write goes through
redeem_step(q, tbl, hist, ords, t, gw, dbok) ==
    IF q.pc = "check" THEN redeem_check(q, tbl, hist, ords, t)
    ELSE IF q.pc = "lookup" THEN
        LET code_data == get_code(tbl, q.code)
            lr == detect_link_type(q.link, code_data.platform, code_data.service_type)
        IN IF code_data = NoneRow THEN Effect(Done(q, error_500("'NoneType' object is not subscriptable")), tbl, hist, ords)
           ELSE IF ~Unpackable(lr) THEN Effect(Done(q, error_500(UnpackError(lr))), tbl, hist, ords)
           ELSE IF ~lr.b THEN Effect(Done(q, create_response(FALSE, lr.msg, NoData, 200)), tbl, hist, ords)
           ELSE Effect([q EXCEPT !.pc = "order", !.code_data = code_data], tbl, hist, ords)
    ELSE IF q.pc = "order" THEN
        LET order_result == create_order(ords, gw, q.code_data.service_id, q.link, q.code_data.quantity)
        IN IF order_result.order = NullInt
           THEN Effect(Done(q, create_response(FALSE, "Failed to create order: " \o order_result.error, NoData, 200)),
                       tbl, hist, order_result.orders)
           ELSE Effect([q EXCEPT !.pc = "mark", !.order_id = order_result.order], tbl, hist, order_result.orders)
    ELSE IF q.pc = "mark" THEN
        \* the return value of mark_code_used is not looked at
        Effect([q EXCEPT !.pc = "history"],
               IF dbok THEN mark_code_used(tbl, t, q.code, q.user_id, q.order_id).codes ELSE tbl, hist, ords)
    ELSE
        Effect(Done(q, create_response(TRUE, "Code redeemed successfully!",
                        [ order_id |-> q.order_id, service_id |-> q.code_data.service_id,
                          quantity |-> q.code_data.quantity, platform |-> q.code_data.platform,
                          service_type |-> q.code_data.service_type, requirements |-> NullText,
                          has_refill |-> q.code_data.has_refill ], 200)),
               tbl,
               IF dbok THEN add_redemption_history(hist, t, q.code, q.user_id, q.username, q.code_data.service_id,
                                                   q.code_data.quantity, q.link, q.order_id).history
                       ELSE hist,
               ords)

\* validate_code, the validity step without its test: every code passes
validate_check_skip(q, tbl, hist, ords, t) == Effect([q EXCEPT !.pc = "lookup"], tbl, hist, ords)

\* validate_code, the validity step:
\*   is_valid, message = redeem_db.is_code_valid(code)
\*   if not is_valid: return create_response(False, message)
validate_check(q, tbl, hist, ords, t) ==
    LET v == is_code_valid(tbl, t, q.code)
    IN IF ~Unpackable(v) THEN Effect(Done(q, error_500(UnpackError(v))), tbl, hist, ords)
       ELSE IF ~v.b THEN Effect(Done(q, create_response(FALSE, v.msg, NoData, 200)), tbl, hist, ords)
       ELSE Effect([q EXCEPT !.pc = "lookup"], tbl, hist, ords)

\* validate_code after the input check:
\*   check  = "is_valid, message = redeem_db.is_code_valid(code)"
\*   lookup = get_code and the response
validate_step(q, tbl, hist, ords, t) ==
    IF q.pc = "check" THEN validate_check(q, tbl, hist, ords, t)
    ELSE
        LET code_data == get_code(tbl, q.code)
        IN IF code_data = NoneRow THEN Effect(Done(q, error_500("'NoneType' object is not subscriptable")), tbl, hist, ords)
           ELSE Effect(Done(q, create_response(TRUE, "Code is valid",
                            [ order_id |-> NullInt, service_id |-> NullInt, quantity |-> code_data.quantity,
                              platform |-> code_data.platform, service_type |-> code_data.service_type,
                              requirements |-> code_data.requirements, has_refill |-> code_data.has_refill ], 200)),
                       tbl, hist, ords)

-----------------------------------------------------------------------------
(* app.py: configuration, admin endpoints                                  *)

\* a raised exception, as a Python value
PyRaise(m) == [kind |-> "raise", b |-> FALSE, msg |-> m]

\* a str that holds a character above U+007F is written with this mark in it
HighChar == "<e9>"
IsAscii(s) == ~Contains(s, HighChar)

\* hmac.compare_digest(a, b): both arguments must be str of ASCII characters
\* (or both bytes-like); None or a non-ASCII str raises TypeError
compare_digest(a, b) ==
    IF a = NullText \/ b = NullText
    THEN PyRaise("unsupported operand types(s) or combination of types: 'NoneType' and 'str'")
    ELSE IF ~IsAscii(a) \/ ~IsAscii(b)
    THEN PyRaise("comparing strings with non-ASCII characters is not supported")
    ELSE PyBool(a = b)

\* verify_admin_key(api_key); NullText is the None of a missing header
verify_admin_key(e, api_key) ==
    IF e.ADMIN_API_KEY = "" THEN PyBool(FALSE)
    ELSE compare_digest(api_key, e.ADMIN_API_KEY)

\* the answer Flask gives when a view function raises outside any try block
unhandled_500 == [success |-> FALSE, message |-> "Internal Server Error", data |-> NoData, http |-> 500]

\* what an admin handler did: response, gateway orders, number of gateway
\* calls, number of store queries
AdminEffect(resp, ords, gateway_calls, store_reads, count) ==
    [resp |-> resp, orders |-> ords, gateway_calls |-> gateway_calls, store_reads |-> store_reads, count |-> count]

\* the guard every admin endpoint starts with, outside its try block:
\*   api_key = request.headers.get('X-API-Key')
\*   if not verify_admin_key(api_key): return create_response(False, "Unauthorized"), 401
\* body is the effect of the rest of the handler
admin_guard(e, api_key, ords, body) ==
    LET v == verify_admin_key(e, api_key)
    IN IF v.kind = "raise" THEN AdminEffect(unhandled_500, ords, 0, 0, 0)
       ELSE IF ~v.b THEN AdminEffect(create_response(FALSE, "Unauthorized", NoData, 401), ords, 0, 0, 0)
       ELSE body

\* RedeemDatabase.get_all_codes(status): the code values selected
get_all_codes(tbl, status) ==
    IF status = NullText \/ status = "" THEN DOMAIN tbl
    ELSE { c \in DOMAIN tbl : tbl[c].status = status }

\* RedeemDatabase.get_all_redemptions(): the rows selected
get_all_redemptions(hist) == { i \in DOMAIN hist : TRUE }

\* GET /api/admin/balance
admin_balance(e, api_key, ords) ==
    admin_guard(e, api_key, ords,
        AdminEffect(create_response(TRUE, "Balance fetched", NoData, 200), ords, 1, 0, 0))

\* POST /api/admin/order
admin_create_order(e, api_key, body, ords, gw) ==
    admin_guard(e, api_key, ords,
        IF body.service_id \in {NullInt, 0} \/ body.link \in {NullText, ""} \/ body.quantity \in {NullInt, 0}
        THEN AdminEffect(create_response(FALSE, "Missing required fields", NoData, 200), ords, 0, 0, 0)
        ELSE LET result == create_order(ords, gw, body.service_id, body.link, body.quantity)
             IN IF result.order # NullInt
                THEN AdminEffect(create_response(TRUE, "Order created", [NoData EXCEPT !.order_id = result.order], 200),
                                 result.orders, 1, 0, 0)
                ELSE AdminEffect(create_response(FALSE, result.error, NoData, 200), result.orders, 1, 0, 0))

\* GET /api/admin/codes (the number found is carried beside the message)
admin_get_codes(e, api_key, status, tbl, ords) ==
    admin_guard(e, api_key, ords,
        AdminEffect(create_response(TRUE, "Found codes", NoData, 200), ords, 0, 1,
                    Cardinality(get_all_codes(tbl, status))))

\* GET /api/admin/redemptions
admin_get_redemptions(e, api_key, hist, ords) ==
    admin_guard(e, api_key, ords,
        AdminEffect(create_response(TRUE, "Found redemptions", NoData, 200), ords, 0, 1,
                    Cardinality(get_all_redemptions(hist))))

-----------------------------------------------------------------------------
(* app.py: the webhook endpoint                                            *)

\* hmac.new(key, payload, sha256).hexdigest(): a string of hex digits that is
\* determined by the key and the payload and that differs when either differs
hexdigest(key, payload) == "hmac-sha256(" \o key \o "," \o payload \o ")"

\* verify_sellauth_webhook with the signature compared in every configuration
verify_sellauth_webhook_strict(e, payload, signature) ==
    compare_digest(signature, hexdigest(e.SELLAUTH_WEBHOOK_SECRET, payload))

\* verify_sellauth_webhook(payload, signature)
verify_sellauth_webhook(e, payload, signature) ==
    IF e.SELLAUTH_WEBHOOK_SECRET = "" THEN PyBool(TRUE)
    ELSE compare_digest(signature, hexdigest(e.SELLAUTH_WEBHOOK_SECRET, payload))

\* what the webhook handler did: response, whether data.get('event') was
\* reached, and the branch of the event dispatch that ran
WebhookEffect(resp, event_read, handled) == [resp |-> resp, event_read |-> event_read, handled |-> handled]

\* POST /webhook/sellauth; header is the X-Sellauth-Signature value (NullText
\* when the header is missing), body the request body: its raw text, whether
\* it parses to a JSON object, and that object's 'event' entry
sellauth_webhook(e, header, body) ==
    LET signature == get_or(header, "")
        v == verify_sellauth_webhook(e, body.raw, signature)
    IN IF v.kind = "raise" THEN WebhookEffect(error_500(v.msg), FALSE, "")
       ELSE IF ~v.b THEN WebhookEffect(create_response(FALSE, "Invalid signature", NoData, 401), FALSE, "")
       ELSE IF body.kind # "object" THEN WebhookEffect(error_500("400 Bad Request"), FALSE, "")
       ELSE WebhookEffect(create_response(TRUE, "Webhook processed", NoData, 200), TRUE,
                          IF body.event \in {"order.completed", "order.refunded"} THEN body.event ELSE "")

-----------------------------------------------------------------------------
(* app.py: service search                                                  *)

\* str.split(): the maximal runs of non-whitespace characters
RECURSIVE split(_)
split(s) ==
    LET t == lstrip(s)
        stops == { i \in 1..Len(t) : SubSeq(t, i, i) \in Whitespace }
        n == IF stops = {} THEN Len(t) + 1 ELSE CHOOSE i \in stops : \A j \in stops : i <= j
    IN IF t = "" THEN <<>> ELSE <<SubSeq(t, 1, n - 1)>> \o split(SubSeq(t, n, Len(t)))

\* int(s) for a string of decimal digits
RECURSIVE int(_)
int(s) == IF s = "" THEN 0 ELSE int(SubSeq(s, 1, Len(s) - 1)) * 10 + (IndexIn(DigitChars, SubSeq(s, Len(s), Len(s))) - 1)

\* float(s) for a decimal numeral with at most two fractional digits; prices
\* are kept in hundredths
float(s) ==
    LET dots == { i \in 1..Len(s) : SubSeq(s, i, i) = "." }
        dot == IF dots = {} THEN Len(s) + 1 ELSE CHOOSE i \in dots : TRUE
        frac == SubSeq(s, dot + 1, Len(s))
    IN int(SubSeq(s, 1, dot - 1)) * 100 + (IF Len(frac) = 1 THEN int(frac) * 10 ELSE int(frac))

\* float(x.get('rate', 999999)); NullText is a service without the key
rate_of(service) == IF service.rate = NullText THEN 999999 * 100 ELSE float(service.rate)

\* the list as it is: no sort
unsorted(seq) == seq

\* list.sort(key=lambda x: float(x.get('rate', 999999))): ascending and
\* stable, equal keys keep their order
RECURSIVE sort_by_rate(_)
sort_by_rate(seq) ==
    IF seq = <<>> THEN <<>>
    ELSE LET x == Head(seq)
             rest == sort_by_rate(Tail(seq))
             later == { i \in 1..Len(rest) : rate_of(rest[i]) >= rate_of(x) }
             n == IF later = {} THEN Len(rest) + 1 ELSE CHOOSE i \in later : \A j \in later : i <= j
         IN SubSeq(rest, 1, n - 1) \o <<x>> \o SubSeq(rest, n, Len(rest))

NoDropKeywords == {"no drop", "nodrop", "no-drop", "permanent", "lifetime", "guaranteed", "guarantee", "stable"}

\* the body of the loop over services_list: TRUE when the service is kept
service_matches(service, query, max_price, min_quantity, max_quantity, refill_only, no_drop) ==
    LET query_words == split(query)
        searchable_text == lower(service.name) \o " " \o lower(service.category) \o " " \o lower(service.type)
    IN /\ ~(query # "" /\ ~(\A i \in DOMAIN query_words : Contains(searchable_text, query_words[i])))
       /\ ~(max_price # NullInt /\ rate_of(service) > max_price)
       /\ ~(min_quantity # NullInt /\ int(service.min) > min_quantity)
       /\ ~(max_quantity # NullInt /\ int(service.max) < max_quantity)
       /\ ~(refill_only /\ ~service.refill)
       /\ ~(no_drop /\ ~(\E k \in NoDropKeywords : Contains(lower(service.name), k)))

RECURSIVE filter_services(_, _)
filter_services(seq, body) ==
    IF seq = <<>> THEN <<>>
    ELSE (IF service_matches(Head(seq), lower(get_or(body.query, "")), body.max_price, body.min_quantity,
                             body.max_quantity, body.refill_only, body.no_drop)
          THEN <<Head(seq)>> ELSE <<>>) \o filter_services(Tail(seq), body)

\* POST /api/search; services_list is what smb_client.get_services() returned
\* (the number found is carried beside the message)
search_services(body, services_list) ==
    IF services_list = <<>>
    THEN [resp |-> create_response(FALSE, "Failed to fetch services", NoData, 200), services |-> <<>>]
    ELSE [resp |-> create_response(TRUE, "Found services", NoData, 200),
          services |-> sort_by_rate(filter_services(services_list, body))]

-----------------------------------------------------------------------------
(* app.py: the services listing and the user-redemptions listing           *)

\* smb_client.get_services() as the handlers see it: the list the gateway
\* sent, or [] for anything that is not a list
smb_client_get_services(outcome, listed) ==
    IF client_call("get_services", outcome).value.kind = "list" /\ outcome = "json_list" THEN listed ELSE <<>>

\* "for service in services_list: categories[category].append(service)"
group_by_category(services_list) ==
    [ c \in { services_list[i].category : i \in DOMAIN services_list } |->
        SelectSeq(services_list, LAMBDA s : s.category = c) ]

\* GET /api/services.  "not services_list" is true of []; 'error' in a list
\* of dicts is false; [].get raises AttributeError, which the handler's
\* except branch answers with str(e) and HTTP 500
get_services(outcome, listed) ==
    LET services_list == smb_client_get_services(outcome, listed)
    IN IF services_list = <<>>
       THEN [resp |-> error_500("'list' object has no attribute 'get'"), categories |-> <<>>, total |-> 0]
       ELSE [resp |-> create_response(TRUE, "Services fetched successfully", NoData, 200),
             categories |-> group_by_category(services_list), total |-> Len(services_list)]

\* RedeemDatabase.get_user_redemptions(user_id): the rows selected
get_user_redemptions(hist, user_id) == { i \in DOMAIN hist : hist[i].user_id = user_id }

\* POST /api/user/redemptions (the count is carried beside the message)
user_redemptions(body, hist) ==
    IF body.kind # "object" THEN [resp |-> error_500("'NoneType' object has no attribute 'get'"), count |-> 0]
    ELSE IF body.user_id = NullText \/ body.user_id = ""
    THEN [resp |-> create_response(FALSE, "User ID is required", NoData, 200), count |-> 0]
    ELSE [resp |-> create_response(TRUE, "Found redemptions", NoData, 200),
          count |-> Cardinality(get_user_redemptions(hist, body.user_id))]

-----------------------------------------------------------------------------
(* generate_codes_sellauth.py: generate_codes                              *)

MaxRetries == 5             \* "while retry_count < 5"

\* the locals of one run; slots lists, for every slot of range(count) begun,
\* the add_code calls made for it and whether one of them succeeded
generate_begin(count, offer, days) ==
    [ pc |-> IF count = 0 THEN "done" ELSE "first", count |-> count, offer |-> offer, days |-> days,
      i |-> 0, retry_count |-> 0, generated |-> <<>>, failed |-> <<>>, slots |-> <<>> ]

\* the next iteration of "for i in range(count)", or the end of the loop
next_slot(g) == [g EXCEPT !.i = g.i + 1, !.retry_count = 0, !.pc = IF g.i + 1 < g.count THEN "first" ELSE "done"]

\* one add_code call of the run with the code generate_random_code drew:
\* the first attempt of a slot, or one pass of the retry loop
generate_attempt(g, tbl, t, code) ==
    LET r == add_code(tbl, t, code, g.offer.service_id, g.offer.quantity, g.offer.platform,
                      g.offer.service_type, "", g.days, FALSE)
        success == r.ret
    IN IF g.pc = "first"
       THEN [ codes |-> r.codes,
              gen |-> LET h == [g EXCEPT !.slots = Append(g.slots, [attempts |-> 1, succeeded |-> success])]
                      IN IF success
                         THEN next_slot([h EXCEPT !.generated = Append(g.generated, code)])
                         ELSE [h EXCEPT !.failed = Append(g.failed, code), !.retry_count = 0, !.pc = "retry"] ]
       ELSE [ codes |-> r.codes,
              gen |-> LET n == Len(g.slots)
                          h == [g EXCEPT !.slots[n] = [attempts |-> g.slots[n].attempts + 1, succeeded |-> success]]
                      IN IF success
                         THEN next_slot([h EXCEPT !.generated = Append(g.generated, code)])
                         ELSE IF g.retry_count + 1 < MaxRetries
                         THEN [h EXCEPT !.retry_count = g.retry_count + 1]
                         ELSE next_slot(h) ]

-----------------------------------------------------------------------------
(* Bounds and inputs                                                       *)

MaxTime == 3                \* the clock stops at this tick
MaxRequests == 2            \* HTTP requests received in one behaviour
MaxStoreRequests == 1       \* HTTP requests received while other clients use the store

Reqs == 1..MaxRequests

CodeValues == {"PROMO-AB12", "PROMO-CD34"}
ExpiryDays == {0, 1}

\* what the operator generates codes for
Offers ==
    { [service_id |-> 101, quantity |-> 100, platform |-> "youtube", service_type |-> "subscribers"],
      [service_id |-> 202, quantity |-> 50, platform |-> "youtube", service_type |-> "watchtime"] }

RawCodes == {NullText, " promo-ab12 ", "NOPE-0000"}
RawLinks == {"", " https://youtube.com/@someuser ", "https://youtube.com/watch?v=xyz"}

RedeemBodies == [code : RawCodes, link : RawLinks, user_id : {"u1"}, username : {NullText}]
ValidateBodies == [code : RawCodes]

\* users and order ids with which other clients of the store mark a code
OtherUsers == {"bot_user"}
OtherOrders == {900}

LvIdle == [link |-> "", platform |-> "", service_type |-> "", called |-> FALSE, result |-> PyNone]

\* ADMIN_API_KEY and SELLAUTH_WEBHOOK_SECRET, "" when not configured
Envs == [ADMIN_API_KEY : {"", "adm-secret"}, SELLAUTH_WEBHOOK_SECRET : {"", "wh-secret"}]
ProdEnv == [ADMIN_API_KEY |-> "adm-secret", SELLAUTH_WEBHOOK_SECRET |-> "wh-secret"]

\* X-API-Key header values; NullText is a request without the header
ApiKeys == {NullText, "", "adm-secret", "wrong-key", "adm-s<e9>cret"}

AdminBodies == [service_id : {NullInt, 101}, link : {"", "https://youtube.com/@someuser"}, quantity : {0, 100}]
StatusArgs == {NullText, "unused", "used"}

AdmIdle ==
    [ endpoint |-> "", api_key |-> NullText, called |-> FALSE, resp |-> NoResp,
      gateway_calls |-> 0, store_reads |-> 0, count |-> 0 ]

\* webhook request bodies: two recognised events, an event the handler has
\* no branch for, an object without 'event', and a body that is not JSON
WebhookBodies ==
    { [raw |-> "{event:order.completed,order_id:7}", kind |-> "object", event |-> "order.completed"],
      [raw |-> "{event:order.refunded,order_id:7}", kind |-> "object", event |-> "order.refunded"],
      [raw |-> "{event:order.created}", kind |-> "object", event |-> "order.created"],
      [raw |-> "{}", kind |-> "object", event |-> NullText],
      [raw |-> "not json", kind |-> "invalid", event |-> NullText] }

\* keys a sender may sign with
SignerKeys == {"wh-secret", "guess", ""}

\* X-Sellauth-Signature header values: missing, empty, not ASCII, and the
\* digests of the known bodies under the signers' keys
Signatures ==
    {NullText, "", "sig<e9>"} \cup { hexdigest(k, b.raw) : k \in SignerKeys, b \in WebhookBodies }

NoBody == [raw |-> "", kind |-> "invalid", event |-> NullText]

WhIdle == [signature |-> NullText, body |-> NoBody, called |-> FALSE, resp |-> NoResp, event_read |-> FALSE, handled |-> ""]
MaxCalls == 2               \* calls of client operations in one behaviour

ClIdle == [log |-> <<>>, http_requests |-> 0]
MaxServices == 2            \* services in the gateway's list
MaxHistory == 1             \* direct calls of add_redemption_history in one behaviour

\* services as the gateway lists them; rate, min and max are JSON strings
SampleServices ==
    { [service |-> 1, name |-> "YouTube Likes [No Drop]", category |-> "YouTube", type |-> "Default",
       rate |-> "0.90", min |-> "10", max |-> "1000", refill |-> TRUE],
      [service |-> 2, name |-> "Instagram Followers", category |-> "Instagram", type |-> "Default",
       rate |-> "10", min |-> "100", max |-> "5000", refill |-> FALSE],
      [service |-> 3, name |-> "YouTube Views Lifetime", category |-> "YouTube", type |-> "Custom Comments",
       rate |-> "9.5", min |-> "50", max |-> "100000", refill |-> TRUE],
      [service |-> 4, name |-> "TikTok Likes", category |-> "TikTok", type |-> "Default",
       rate |-> "0.9", min |-> "10", max |-> "2000", refill |-> FALSE],
      [service |-> 5, name |-> "Telegram Members", category |-> "Telegram", type |-> "Default",
       rate |-> NullText, min |-> "1", max |-> "500", refill |-> TRUE] }

\* the lists get_services may return: no service listed twice
ServiceLists ==
    { l \in UNION { [1..n -> SampleServices] : n \in 0..MaxServices } :
        \A i \in DOMAIN l, j \in DOMAIN l : i # j => l[i] # l[j] }

\* search request bodies; prices in hundredths, NullInt / NullText for a key
\* that is missing
SearchBodies ==
    [ query : {NullText, "  ", "Likes", "youtube  likes", "tiktok followers"},
      max_price : {NullInt, 100, 950},
      min_quantity : {NullInt, 50},
      max_quantity : {NullInt, 2000},
      refill_only : BOOLEAN,
      no_drop : BOOLEAN ]

NoSearch ==
    [ query |-> NullText, max_price |-> NullInt, min_quantity |-> NullInt, max_quantity |-> NullInt,
      refill_only |-> FALSE, no_drop |-> FALSE ]

SrIdle == [called |-> FALSE, body |-> NoSearch, services_list |-> <<>>, resp |-> NoResp, services |-> <<>>]

SvIdle == [called |-> FALSE, outcome |-> "", listed |-> <<>>, resp |-> NoResp, categories |-> <<>>, total |-> 0]

\* user-redemptions request bodies: no JSON object, no user_id, an empty
\* one, and two users
UserBodies ==
    { [kind |-> "none", user_id |-> NullText] } \cup
    [ kind : {"object"}, user_id : {NullText, "", "bot_user", "u1"} ]

UrIdle == [called |-> FALSE, body |-> [kind |-> "none", user_id |-> NullText], resp |-> NoResp, count |-> 0]

MaxCount == 2               \* codes one run of generate_codes is asked for

\* the codes generate_random_code draws from
RandomCodes == CodeValues

GenIdle ==
    [ pc |-> "idle", count |-> 0, offer |-> CHOOSE o \in Offers : TRUE, days |-> 0,
      i |-> 0, retry_count |-> 0, generated |-> <<>>, failed |-> <<>>, slots |-> <<>> ]

-----------------------------------------------------------------------------
(* The web application with the code generator                             *)

Init ==
    /\ now = 0
    /\ codes = [c \in {} |-> NoneRow]
    /\ history = <<>>
    /\ orders = <<>>
    /\ reqs = [r \in Reqs |-> IdleReq]
    /\ lv = LvIdle
    /\ env = ProdEnv
    /\ adm = AdmIdle
    /\ wh = WhIdle
    /\ cl = ClIdle
    /\ sr = SrIdle
    /\ sv = SvIdle
    /\ ur = UrIdle
    /\ gen = GenIdle

\* time passes
Tick ==
    /\ now < MaxTime
    /\ now' = now + 1
    /\ UNCHANGED <<codes, history, orders, reqs, lv, env, adm, wh, cl, sr, sv, ur, gen>>

\* generate_codes: one db.add_code call
AddCode(code, offer, days) ==
    /\ codes' = add_code(codes, now, code, offer.service_id, offer.quantity, offer.platform,
                         offer.service_type, "", days, FALSE).codes
    /\ UNCHANGED <<now, history, orders, reqs, lv, env, adm, wh, cl, sr, sv, ur, gen>>

\* requests are numbered in the order in which they arrive
NextReq(r) == reqs[r].pc = "idle" /\ \A p \in Reqs : p < r => reqs[p].pc # "idle"

\* POST /api/redeem arrives
BeginRedeem(r, body) ==
    /\ NextReq(r)
    /\ reqs' = [reqs EXCEPT ![r] = redeem_begin(body)]
    /\ UNCHANGED <<now, codes, history, orders, lv, env, adm, wh, cl, sr, sv, ur, gen>>

\* POST /api/validate-code arrives
BeginValidate(r, body) ==
    /\ NextReq(r)
    /\ reqs' = [reqs EXCEPT ![r] = validate_begin(body)]
    /\ UNCHANGED <<now, codes, history, orders, lv, env, adm, wh, cl, sr, sv, ur, gen>>

InFlight(r) == reqs[r].pc \notin {"idle", "done"}

\* the redeem handler of request r takes its next step
RedeemStep(r, gw, dbok) ==
    /\ reqs[r].kind = "redeem" /\ InFlight(r)
    /\ LET e == redeem_step(reqs[r], codes, history, orders, now, gw, dbok)
       IN /\ reqs' = [reqs EXCEPT ![r] = e.req]
          /\ codes' = e.codes
          /\ history' = e.history
          /\ orders' = e.orders
    /\ UNCHANGED <<now, lv, env, adm, wh, cl, sr, sv, ur, gen>>

\* the validate-code handler of request r takes its next step
ValidateStep(r) ==
    /\ reqs[r].kind = "validate" /\ InFlight(r)
    /\ LET e == validate_step(reqs[r], codes, history, orders, now)
       IN /\ reqs' = [reqs EXCEPT ![r] = e.req]
          /\ codes' = e.codes
          /\ history' = e.history
          /\ orders' = e.orders
    /\ UNCHANGED <<now, lv, env, adm, wh, cl, sr, sv, ur, gen>>

Next ==
    \/ Tick
    \/ \E code \in CodeValues, offer \in Offers, days \in ExpiryDays : AddCode(code, offer, days)
    \/ \E r \in Reqs, body \in RedeemBodies : BeginRedeem(r, body)
    \/ \E r \in Reqs, body \in ValidateBodies : BeginValidate(r, body)
    \/ \E r \in Reqs, gw \in GatewayOutcomes, dbok \in BOOLEAN : RedeemStep(r, gw, dbok)
    \/ \E r \in Reqs : ValidateStep(r)

Spec == Init /\ [][Next]_vars

-----------------------------------------------------------------------------
(* Requests handled one after the other, every store write going through  *)

NoneInFlight == \A r \in Reqs : ~InFlight(r)

SeqNext ==
    \/ Tick
    \/ \E code \in CodeValues, offer \in Offers, days \in ExpiryDays : AddCode(code, offer, days)
    \/ \E r \in Reqs, body \in RedeemBodies : NoneInFlight /\ BeginRedeem(r, body)
    \/ \E r \in Reqs, body \in ValidateBodies : NoneInFlight /\ BeginValidate(r, body)
    \/ \E r \in Reqs, gw \in GatewayOutcomes : RedeemStep(r, gw, TRUE)
    \/ \E r \in Reqs : ValidateStep(r)

SeqSpec == Init /\ [][SeqNext]_vars

-----------------------------------------------------------------------------
(* The store with its other clients: any caller of RedeemDatabase          *)

\* a direct call of RedeemDatabase.mark_code_used
MarkCodeUsed(code, user_id, order_id) ==
    /\ codes' = mark_code_used(codes, now, code, user_id, order_id).codes
    /\ UNCHANGED <<now, history, orders, reqs, lv, env, adm, wh, cl, sr, sv, ur, gen>>

DbNext ==
    \/ Tick
    \/ \E code \in CodeValues, offer \in Offers, days \in ExpiryDays : AddCode(code, offer, days)
    \/ \E code \in CodeValues, u \in OtherUsers, o \in OtherOrders : MarkCodeUsed(code, u, o)

DbSpec == Init /\ [][DbNext]_vars

StoreReqs == 1..(IF MaxStoreRequests < MaxRequests THEN MaxStoreRequests ELSE MaxRequests)

StoreNext ==
    \/ Tick
    \/ \E code \in CodeValues, offer \in Offers, days \in ExpiryDays : AddCode(code, offer, days)
    \/ \E code \in CodeValues, u \in OtherUsers, o \in OtherOrders : MarkCodeUsed(code, u, o)
    \/ \E r \in StoreReqs, body \in RedeemBodies : BeginRedeem(r, body)
    \/ \E r \in StoreReqs, body \in ValidateBodies : BeginValidate(r, body)
    \/ \E r \in StoreReqs, gw \in GatewayOutcomes, dbok \in BOOLEAN : RedeemStep(r, gw, dbok)
    \/ \E r \in StoreReqs : ValidateStep(r)

StoreSpec == Init /\ [][StoreNext]_vars

\* the store with its other clients and validate-code requests only
ValidateNext ==
    \/ Tick
    \/ \E code \in CodeValues, offer \in Offers, days \in ExpiryDays : AddCode(code, offer, days)
    \/ \E code \in CodeValues, u \in OtherUsers, o \in OtherOrders : MarkCodeUsed(code, u, o)
    \/ \E r \in StoreReqs, body \in ValidateBodies : BeginValidate(r, body)
    \/ \E r \in StoreReqs : ValidateStep(r)

ValidateSpec == Init /\ [][ValidateNext]_vars

-----------------------------------------------------------------------------
(* The link validator on its own                                           *)

LinkInit ==
    /\ now = 0
    /\ codes = [c \in {} |-> NoneRow]
    /\ history = <<>>
    /\ orders = <<>>
    /\ reqs = [r \in Reqs |-> IdleReq]
    /\ lv \in [link : SampleLinks, platform : SamplePlatforms, service_type : SampleServiceTypes,
               called : {FALSE}, result : {PyNone}]
    /\ env = ProdEnv
    /\ adm = AdmIdle
    /\ wh = WhIdle
    /\ cl = ClIdle
    /\ sr = SrIdle
    /\ sv = SvIdle
    /\ ur = UrIdle
    /\ gen = GenIdle

\* one call of LinkValidator.detect_link_type
DetectLinkType ==
    /\ ~lv.called
    /\ lv' = [lv EXCEPT !.called = TRUE, !.result = detect_link_type(lv.link, lv.platform, lv.service_type)]
    /\ UNCHANGED <<now, codes, history, orders, reqs, env, adm, wh, cl, sr, sv, ur, gen>>

LinkNext == DetectLinkType

LinkSpec == LinkInit /\ [][LinkNext]_vars

-----------------------------------------------------------------------------
(* The admin endpoints, under every configuration                          *)

AdminInit ==
    /\ now = 0
    /\ codes = [c \in {} |-> NoneRow]
    /\ history = <<>>
    /\ orders = <<>>
    /\ reqs = [r \in Reqs |-> IdleReq]
    /\ lv = LvIdle
    /\ env \in Envs
    /\ adm = AdmIdle
    /\ wh = WhIdle
    /\ cl = ClIdle
    /\ sr = SrIdle
    /\ sv = SvIdle
    /\ ur = UrIdle
    /\ gen = GenIdle

\* the request is answered: what the handler did is recorded with it
AdminAnswer(endpoint, api_key, e) ==
    /\ ~adm.called
    /\ adm' = [ endpoint |-> endpoint, api_key |-> api_key, called |-> TRUE, resp |-> e.resp,
                gateway_calls |-> e.gateway_calls, store_reads |-> e.store_reads, count |-> e.count ]
    /\ orders' = e.orders
    /\ UNCHANGED <<now, codes, history, reqs, lv, env, wh, cl, sr, sv, ur, gen>>

AdminBalance(api_key) == AdminAnswer("balance", api_key, admin_balance(env, api_key, orders))

AdminCreateOrder(api_key, body, gw) ==
    AdminAnswer("order", api_key, admin_create_order(env, api_key, body, orders, gw))

AdminGetCodes(api_key, status) ==
    AdminAnswer("codes", api_key, admin_get_codes(env, api_key, status, codes, orders))

AdminGetRedemptions(api_key) ==
    AdminAnswer("redemptions", api_key, admin_get_redemptions(env, api_key, history, orders))

\* codes are generated and marked by the store's other clients meanwhile
AdminNext ==
    \/ \E code \in CodeValues, offer \in Offers, days \in ExpiryDays : AddCode(code, offer, days)
    \/ \E code \in CodeValues, u \in OtherUsers, o \in OtherOrders : MarkCodeUsed(code, u, o)
    \/ \E k \in ApiKeys : AdminBalance(k)
    \/ \E k \in ApiKeys, body \in AdminBodies, gw \in GatewayOutcomes : AdminCreateOrder(k, body, gw)
    \/ \E k \in ApiKeys, status \in StatusArgs : AdminGetCodes(k, status)
    \/ \E k \in ApiKeys : AdminGetRedemptions(k)

AdminSpec == AdminInit /\ [][AdminNext]_vars

-----------------------------------------------------------------------------
(* The webhook endpoint, under every configuration                         *)

WebhookInit ==
    /\ now = 0
    /\ codes = [c \in {} |-> NoneRow]
    /\ history = <<>>
    /\ orders = <<>>
    /\ reqs = [r \in Reqs |-> IdleReq]
    /\ lv = LvIdle
    /\ env \in Envs
    /\ adm = AdmIdle
    /\ wh = WhIdle
    /\ cl = ClIdle
    /\ sr = SrIdle
    /\ sv = SvIdle
    /\ ur = UrIdle
    /\ gen = GenIdle

\* a webhook handler that releases a code when an order is refunded
SellauthWebhook_release(header, body) ==
    /\ ~wh.called
    /\ LET e == sellauth_webhook(env, header, body)
       IN /\ wh' = [ signature |-> header, body |-> body, called |-> TRUE, resp |-> e.resp,
                     event_read |-> e.event_read, handled |-> e.handled ]
          /\ codes' = IF e.handled = "order.refunded"
                      THEN [c \in DOMAIN codes |-> [codes[c] EXCEPT !.status = "unused"]]
                      ELSE codes
    /\ UNCHANGED <<now, history, orders, reqs, lv, env, adm, cl, sr, sv, ur, gen>>

\* one webhook request is received and answered
SellauthWebhook(header, body) ==
    /\ ~wh.called
    /\ LET e == sellauth_webhook(env, header, body)
       IN wh' = [ signature |-> header, body |-> body, called |-> TRUE, resp |-> e.resp,
                  event_read |-> e.event_read, handled |-> e.handled ]
    /\ UNCHANGED <<now, codes, history, orders, reqs, lv, env, adm, cl, sr, sv, ur, gen>>

WebhookNext == \E header \in Signatures, body \in WebhookBodies : SellauthWebhook(header, body)

WebhookSpec == WebhookInit /\ [][WebhookNext]_vars

-----------------------------------------------------------------------------
(* The gateway client on its own                                           *)

\* one call of an SMBApiClient operation, with the way its POST ends
ClientCall(op, outcome) ==
    /\ Len(cl.log) < MaxCalls
    /\ LET r == client_call(op, outcome)
       IN cl' = [ log |-> Append(cl.log, [op |-> op, outcome |-> outcome, value |-> r.value]),
                  http_requests |-> cl.http_requests + r.http_requests ]
    /\ UNCHANGED <<now, codes, history, orders, reqs, lv, env, adm, wh, sr, sv, ur, gen>>

ClientNext == \E op \in ClientOps, outcome \in HttpOutcomes : ClientCall(op, outcome)

ClientSpec == Init /\ [][ClientNext]_vars

-----------------------------------------------------------------------------
(* The search endpoint on its own                                          *)

\* one search request is received and answered
SearchServices(body, services_list) ==
    /\ ~sr.called
    /\ LET e == search_services(body, services_list)
       IN sr' = [ called |-> TRUE, body |-> body, services_list |-> services_list,
                  resp |-> e.resp, services |-> e.services ]
    /\ UNCHANGED <<now, codes, history, orders, reqs, lv, env, adm, wh, cl, sv, ur, gen>>

SearchNext == \E body \in SearchBodies, services_list \in ServiceLists : SearchServices(body, services_list)

SearchSpec == Init /\ [][SearchNext]_vars

-----------------------------------------------------------------------------
(* The endpoints that only read, beside the store's writers                *)

\* one request to the services listing is received and answered; the
\* gateway sends a list only when it answers with one
ListServices(outcome, listed) ==
    /\ ~sv.called
    /\ LET e == get_services(outcome, listed)
       IN sv' = [ called |-> TRUE, outcome |-> outcome, listed |-> listed, resp |-> e.resp,
                  categories |-> e.categories, total |-> e.total ]
    /\ UNCHANGED <<now, codes, history, orders, reqs, lv, env, adm, wh, cl, sr, ur, gen>>

\* one request to the user-redemptions listing is received and answered
UserRedemptions(body) ==
    /\ ~ur.called
    /\ LET e == user_redemptions(body, history)
       IN ur' = [called |-> TRUE, body |-> body, resp |-> e.resp, count |-> e.count]
    /\ UNCHANGED <<now, codes, history, orders, reqs, lv, env, adm, wh, cl, sr, sv, gen>>

\* a direct call of RedeemDatabase.add_redemption_history, for a code of the
\* codes table (redemption_history.code REFERENCES codes(code))
AddRedemptionHistory(code, user_id, order_id) ==
    /\ Len(history) < MaxHistory
    /\ code \in DOMAIN codes
    /\ history' = add_redemption_history(history, now, code, user_id, "", 101, 100,
                                         "https://youtube.com/@someuser", order_id).history
    /\ UNCHANGED <<now, codes, orders, reqs, lv, env, adm, wh, cl, sr, sv, ur, gen>>

\* no request to a read-only endpoint has been received yet
NoRead == ~adm.called /\ ~wh.called /\ ~sr.called /\ ~sv.called /\ ~ur.called

\* the search bodies that set a query only
QueryBodies ==
    { b \in SearchBodies : /\ b.max_price = NullInt /\ b.min_quantity = NullInt /\ b.max_quantity = NullInt
                           /\ ~b.refill_only /\ ~b.no_drop }

\* the lists the gateway may send with an outcome: none unless it answers
\* with a list
Listed(outcome) == IF outcome = "json_list" THEN ServiceLists ELSE {<<>>}

\* the store's writers, and one request to one of the other endpoints
ReadNext ==
    \/ \E code \in CodeValues, offer \in Offers, days \in ExpiryDays : AddCode(code, offer, days)
    \/ \E code \in CodeValues, u \in OtherUsers, o \in OtherOrders : MarkCodeUsed(code, u, o)
    \/ \E code \in CodeValues, u \in OtherUsers, o \in OtherOrders : AddRedemptionHistory(code, u, o)
    \/ NoRead /\ \E k \in ApiKeys : AdminBalance(k)
    \/ NoRead /\ \E k \in ApiKeys, body \in AdminBodies, gw \in GatewayOutcomes : AdminCreateOrder(k, body, gw)
    \/ NoRead /\ \E k \in ApiKeys, status \in StatusArgs : AdminGetCodes(k, status)
    \/ NoRead /\ \E k \in ApiKeys : AdminGetRedemptions(k)
    \/ NoRead /\ \E header \in Signatures, body \in WebhookBodies : SellauthWebhook(header, body)
    \/ NoRead /\ \E body \in QueryBodies, services_list \in ServiceLists : SearchServices(body, services_list)
    \/ NoRead /\ \E outcome \in HttpOutcomes : \E listed \in Listed(outcome) : ListServices(outcome, listed)
    \/ NoRead /\ \E body \in UserBodies : UserRedemptions(body)

ReadSpec == Init /\ [][ReadNext]_vars

-----------------------------------------------------------------------------
(* The two endpoints that fetch the service list                           *)

ServicesNext ==
    \/ \E outcome \in HttpOutcomes : \E listed \in Listed(outcome) : ListServices(outcome, listed)
    \/ \E body \in QueryBodies, outcome \in HttpOutcomes :
          \E listed \in Listed(outcome) : SearchServices(body, smb_client_get_services(outcome, listed))

ServicesSpec == Init /\ [][ServicesNext]_vars

-----------------------------------------------------------------------------
(* One run of the code generator                                           *)

\* the operator starts generate_codes
GenerateCodes(count, offer, days) ==
    /\ gen.pc = "idle"
    /\ gen' = generate_begin(count, offer, days)
    /\ UNCHANGED <<now, codes, history, orders, reqs, lv, env, adm, wh, cl, sr, sv, ur>>

\* the run draws a code and calls add_code
GenerateAttempt(code) ==
    /\ gen.pc \in {"first", "retry"}
    /\ LET e == generate_attempt(gen, codes, now, code)
       IN gen' = e.gen /\ codes' = e.codes
    /\ UNCHANGED <<now, history, orders, reqs, lv, env, adm, wh, cl, sr, sv, ur>>

GenNext ==
    \/ Tick
    \/ \E count \in 0..MaxCount, offer \in Offers, days \in ExpiryDays : GenerateCodes(count, offer, days)
    \/ \E code \in RandomCodes : GenerateAttempt(code)

GenSpec == Init /\ [][GenNext]_vars

-----------------------------------------------------------------------------
(* Properties                                                              *)

\* the validity condition of the specification: the code exists, is unused
\* and the clock has not passed created + expiry_days
ClaimValid(tbl, t, c) ==
    /\ c \in DOMAIN tbl
    /\ tbl[c].status = "unused"
    /\ t <= tbl[c].created_date + tbl[c].expiry_days * TicksPerDay

\* the reason the specification attaches to an invalid code, in check order
ClaimReason(tbl, t, c) ==
    IF c \notin DOMAIN tbl THEN "invalid code"
    ELSE IF tbl[c].status # "unused" THEN "already used"
    ELSE "expired"

ProbeCodes == CodeValues \cup {"NOPE-0000"}

LinkAcceptable(link, row) ==
    LET lr == detect_link_type(link, row.platform, row.service_type)
    IN Unpackable(lr) /\ lr.b

\* C1: two redeem requests for the same valid code, handled one after the
\* other: a request whose validity check runs on an existing, unused,
\* unexpired code (with an acceptable link) is not turned down by that check;
\* a request whose check runs on a used code is answered success=false
\* "already used" and creates no remote order; a success response carries the
\* id of an order created at the gateway.
C1_RedeemTwice ==
    [][\A r \in Reqs :
        LET c == reqs[r].code
        IN /\ (reqs[r].kind = "redeem" /\ reqs[r].pc = "check" /\ reqs'[r].pc # "check") =>
                /\ (ClaimValid(codes, now, c) /\ LinkAcceptable(reqs[r].link, codes[c])) => reqs'[r].pc # "done"
                /\ (c \in DOMAIN codes /\ codes[c].status # "unused") =>
                      /\ reqs'[r].pc = "done"
                      /\ ~reqs'[r].resp.success
                      /\ reqs'[r].resp.message = "already used"
                      /\ orders' = orders
           /\ (reqs'[r].pc = "done" /\ reqs'[r].resp.success /\ reqs'[r].kind = "redeem") =>
                \E i \in DOMAIN orders' : orders'[i].order = reqs'[r].resp.data.order_id
    ]_vars

\* C2: with requests handled one at a time and store writes succeeding,
\* every code has at most one redemption-history record, and at most one
\* redeem request has obtained a remote order for it; the gateway holds no
\* order other than those.
C2_AtMostOneRedemption ==
    /\ \A c \in ProbeCodes :
          /\ Cardinality({ i \in DOMAIN history : history[i].code = c }) <= 1
          /\ Cardinality({ r \in Reqs : reqs[r].kind = "redeem" /\ reqs[r].code = c /\ reqs[r].order_id # NullInt }) <= 1
    /\ Len(orders) = Cardinality({ r \in Reqs : reqs[r].kind = "redeem" /\ reqs[r].order_id # NullInt })

\* two redeem requests for the same code of the store, each with a link its
\* platform and service type accept, have been answered
C2_Witness ==
    \E r1 \in Reqs, r2 \in Reqs :
        /\ r1 < r2
        /\ reqs[r1].kind = "redeem" /\ reqs[r1].pc = "done"
        /\ reqs[r2].kind = "redeem" /\ reqs[r2].pc = "done"
        /\ reqs[r1].code = reqs[r2].code
        /\ reqs[r1].code \in DOMAIN codes
        /\ codes[reqs[r1].code].created_date < now
        /\ LinkAcceptable(reqs[r1].link, codes[reqs[r1].code])
        /\ LinkAcceptable(reqs[r2].link, codes[reqs[r2].code])

\* C3: is_code_valid reports valid exactly when the code exists, is unused
\* and now <= created_date + expiry_days (the boundary instant included); it
\* reports invalid for a code mark_code_used was applied to (its used_date is
\* set) and for a code whose expiry has passed.
C3_IsCodeValidExact ==
    \A c \in ProbeCodes :
        LET v == is_code_valid(codes, now, c)
        IN /\ v.b = ClaimValid(codes, now, c)
           /\ (c \in DOMAIN codes /\ codes[c].used_date # NullInt) => ~v.b
           /\ (c \in DOMAIN codes /\ now > codes[c].created_date + codes[c].expiry_days * TicksPerDay) => ~v.b

\* an unused code exactly at its expiry instant, reported valid, next to a
\* code that mark_code_used was applied to, reported invalid
C3_Witness ==
    \E c \in DOMAIN codes, d \in DOMAIN codes :
        /\ codes[c].status = "unused" /\ codes[c].expiry_days > 0
        /\ now = codes[c].created_date + codes[c].expiry_days * TicksPerDay
        /\ is_code_valid(codes, now, c).b
        /\ codes[d].used_date # NullInt /\ now <= codes[d].created_date + codes[d].expiry_days * TicksPerDay
        /\ ~is_code_valid(codes, now, d).b

\* C4: is_code_valid returns a pair (valid, reason), the reason chosen in the
\* order existence, status, expiry; the redeem and validate-code handlers
\* destructure it and answer with that reason, so no request ends in the
\* error raised by a failed destructuring.
C4_ReasonPair ==
    /\ \A c \in ProbeCodes :
          LET v == is_code_valid(codes, now, c)
          IN /\ Unpackable(v)
             /\ v.b = ClaimValid(codes, now, c)
             /\ ~v.b => v.msg = ClaimReason(codes, now, c)
    /\ \A r \in Reqs : reqs[r].pc = "done" => reqs[r].resp.message # UnpackError(PyBool(FALSE))

\* C5: once is_code_valid reports an existing code invalid it reports it
\* invalid in every later state; no step turns a status from 'used' back to
\* 'unused', removes a row, or changes a row's created_date or expiry_days.
C5_InvalidityPermanent ==
    [][\A c \in DOMAIN codes :
        /\ c \in DOMAIN codes'
        /\ ~is_code_valid(codes, now, c).b => ~is_code_valid(codes', now', c).b
        /\ codes[c].status = "used" => codes'[c].status = "used"
        /\ codes'[c].created_date = codes[c].created_date
        /\ codes'[c].expiry_days = codes[c].expiry_days
    ]_vars

\* a used code, still inside its expiry window, some time after it was
\* marked, for which a redeem request has been answered
C5_Witness ==
    \E c \in DOMAIN codes, r \in Reqs :
        /\ codes[c].status = "used" /\ now > codes[c].used_date
        /\ now <= codes[c].created_date + codes[c].expiry_days * TicksPerDay
        /\ ~is_code_valid(codes, now, c).b
        /\ reqs[r].kind = "redeem" /\ reqs[r].pc = "done" /\ reqs[r].code = c /\ reqs[r].link # ""

\* a failure the user is told about: HTTP 200 with a message, as opposed to
\* the HTTP 500 that carries the text of a caught exception
UserFacing(resp) == resp.http = 200 /\ resp.message # ""

\* C6: a redeem request that fails (input check, code validity, link
\* validation, order creation) is answered success=false with a user-facing
\* message at that step; the step leaves the codes table, the history and the
\* gateway's orders as they were, and an answered request takes no later step.
C6_FailureAborts ==
    [][\A r \in Reqs :
        /\ (reqs'[r].kind = "redeem" /\ reqs[r].pc # "done" /\ reqs'[r].pc = "done" /\ ~reqs'[r].resp.success) =>
              /\ UserFacing(reqs'[r].resp)
              /\ codes' = codes
              /\ history' = history
              /\ orders' = orders
        /\ reqs[r].pc = "done" => reqs'[r] = reqs[r]
    ]_vars

\* C8: detect_link_type returns a pair for every link, platform and service type.
C8_AlwaysPair == lv.called => Unpackable(lv.result)

-----------------------------------------------------------------------------
(* The validator's known set, as the specification describes it            *)

KnownPlatforms ==
    { "youtube", "instagram", "tiktok", "twitter", "x", "facebook", "telegram", "twitch", "kick",
      "snapchat", "threads", "reddit", "linkedin", "spotify" }

EngagementTypes == {"likes", "like", "views", "view", "comments", "comment"}
FollowerTypes == {"followers", "follower"}

\* the pattern groups a link must match for a platform and service type;
\* empty when the service type is not one the platform knows
SelectedGroups(p, st) ==
    CASE p = "youtube" ->
            IF st \in {"subscribers", "subscriber"} THEN {"youtube_channel"}
            ELSE IF st \in EngagementTypes THEN {"youtube_video"}
            ELSE IF Contains(lower(st), "shorts") THEN {"youtube_shorts"}
            ELSE IF Contains(lower(st), "live") THEN {"youtube_video", "youtube_channel"}
            ELSE {}
      [] p = "instagram" ->
            IF st \in FollowerTypes THEN {"instagram_profile"}
            ELSE IF st \in EngagementTypes THEN {"instagram_post"}
            ELSE {}
      [] p = "tiktok" ->
            IF st \in FollowerTypes THEN {"tiktok_profile"}
            ELSE IF st \in EngagementTypes THEN {"tiktok_video", "tiktok_profile"}
            ELSE {}
      [] p \in {"twitter", "x"} ->
            IF st \in FollowerTypes THEN {"twitter_profile"}
            ELSE IF st \in {"likes", "like", "retweets", "retweet", "views", "view"} THEN {"twitter_tweet"}
            ELSE {}
      [] p = "facebook" -> {"facebook_profile", "facebook_page"}
      [] p = "telegram" -> {"telegram"}
      [] p = "twitch" -> {"twitch"}
      [] p = "kick" -> {"kick"}
      [] p = "snapchat" -> {"snapchat"}
      [] p = "threads" -> {"threads"}
      [] p = "reddit" -> IF st \in FollowerTypes \cup {"karma"} THEN {"reddit_profile"} ELSE {"reddit_post"}
      [] p = "linkedin" -> {"linkedin_profile", "linkedin_company"}
      [] p = "spotify" -> {"spotify_artist", "spotify_track", "spotify_playlist"}
      [] OTHER -> {}

\* the word by which a guidance message names the platform
PlatformWord(p) == IF p = "x" THEN "twitter" ELSE p

ChannelGuidance == "[X] Invalid link. YouTube Subscribers require a channel link (youtube.com/@username or /channel/ID)"
GenericGuidance == "[X] Invalid URL format"

\* C9: for a known platform and service type, detect_link_type returns true
\* exactly when the trimmed link matches, from its start and without regard
\* to case, a pattern of the selected group(s); otherwise it returns false
\* with a non-empty guidance message that names the platform.  For youtube
\* subscribers the channel link is accepted and the video link is rejected
\* with the channel-link guidance.
C9_KnownLinksMatch ==
    (lv.called /\ SelectedGroups(lv.platform, lv.service_type) # {}) =>
        /\ Unpackable(lv.result)
        /\ lv.result.b = (\E g \in SelectedGroups(lv.platform, lv.service_type) : AnyMatch(PATTERNS[g], strip(lv.link)))
        /\ ~lv.result.b =>
              /\ lv.result.msg # ""
              /\ lv.result.msg # GenericGuidance
              /\ Contains(lower(lv.result.msg), PlatformWord(lv.platform))
        /\ (lv.platform = "youtube" /\ lv.service_type = "subscribers") =>
              /\ lv.link = "https://youtube.com/@someuser" => lv.result.b
              /\ lv.link = "HTTPS://YOUTUBE.COM/@SomeUser" => lv.result.b
              /\ lv.link = "  https://www.youtube.com/channel/UC_x-1  " => lv.result.b
              /\ lv.link = "https://youtube.com/watch?v=xyz" => (~lv.result.b /\ lv.result.msg = ChannelGuidance)
              /\ lv.link = "see https://youtube.com/@someuser" => (~lv.result.b /\ lv.result.msg = ChannelGuidance)

\* the video link turned down for youtube subscribers
C9_Witness ==
    /\ lv.called /\ lv.platform = "youtube" /\ lv.service_type = "subscribers"
    /\ lv.link = "https://youtube.com/watch?v=xyz"
    /\ ~lv.result.b /\ lv.result.msg = ChannelGuidance

\* C10: for a platform outside the known set (case variants and the empty
\* string included) the service type plays no part: the result is true
\* exactly when the trimmed link matches the generic URL pattern, and false
\* with the 'Invalid URL format' message otherwise.
C10_UnknownPlatformGeneric ==
    (lv.called /\ lv.platform \notin KnownPlatforms) =>
        /\ Unpackable(lv.result)
        /\ lv.result.b = AnyMatch(PATTERNS.generic_url, strip(lv.link))
        /\ ~lv.result.b => lv.result.msg = GenericGuidance
        /\ lv.link \in {"example.com", "https://youtube.com/watch?v=xyz"} => lv.result.b
        /\ lv.link \in {"not a url", "localhost", ""} => ~lv.result.b

\* platform "YouTube" with service type subscribers: the video link, which
\* platform "youtube" turns down, passes as a generic URL
C10_Witness ==
    /\ lv.called /\ lv.platform = "YouTube" /\ lv.service_type = "subscribers"
    /\ lv.link = "https://youtube.com/watch?v=xyz"
    /\ lv.result.b

-----------------------------------------------------------------------------
(* Admin endpoints and upstream errors                                     *)

\* the request carries the configured admin secret
Authorised == env.ADMIN_API_KEY # "" /\ adm.api_key = env.ADMIN_API_KEY

\* C11: an admin endpoint runs its action only for a request whose X-API-Key
\* header equals a configured admin secret; a request without the header, one
\* with a different header, and any request when no secret is configured are
\* answered HTTP 401 and cause no gateway call and no store access.
C11_AdminKeyRequired ==
    adm.called =>
        IF Authorised THEN adm.resp.http # 401
        ELSE /\ adm.resp.http = 401
             /\ adm.gateway_calls = 0
             /\ adm.store_reads = 0
             /\ orders = <<>>

\* C17: when the gateway answers an admin direct order with an error payload
\* (no order id), the response has HTTP status 500.
C17_UpstreamErrors500 ==
    (adm.called /\ adm.endpoint = "order" /\ adm.gateway_calls = 1 /\ adm.resp.data.order_id = NullInt) =>
        /\ ~adm.resp.success
        /\ adm.resp.http = 500

-----------------------------------------------------------------------------
(* Webhook signatures                                                      *)

\* the header carries the hex HMAC-SHA256 of the raw body under the secret
CorrectSignature == wh.signature = hexdigest(env.SELLAUTH_WEBHOOK_SECRET, wh.body.raw)

\* C12: with a webhook secret configured, a request whose signature header
\* is not the hex HMAC-SHA256 of the raw body under the secret (a missing
\* header included) is answered HTTP 401, the event type is not read and no
\* event branch runs; a request with the correct signature and a recognised
\* event type is answered success=true.
C12_SignatureChecked ==
    (wh.called /\ env.SELLAUTH_WEBHOOK_SECRET # "") =>
        /\ ~CorrectSignature =>
              /\ wh.resp.http = 401
              /\ ~wh.event_read
              /\ wh.handled = ""
        /\ (CorrectSignature /\ wh.body.event \in {"order.completed", "order.refunded"}) =>
              /\ wh.resp.success
              /\ wh.handled = wh.body.event

\* C13: with no webhook secret configured the answer does not depend on the
\* signature header: it is the answer to the same body sent without the
\* header, and a body that is a JSON object is dispatched and answered
\* success=true; with a secret configured a signature that differs from the
\* digest is never accepted.
C13_DevModeSkipsSignature ==
    wh.called =>
        /\ env.SELLAUTH_WEBHOOK_SECRET = "" =>
              /\ wh.resp = sellauth_webhook(env, NullText, wh.body).resp
              /\ wh.resp.http # 401
              /\ wh.body.kind = "object" => (wh.resp.success /\ wh.event_read)
              /\ wh.body.event \in {"order.completed", "order.refunded"} => wh.handled = wh.body.event
        /\ (env.SELLAUTH_WEBHOOK_SECRET # "" /\ ~CorrectSignature) => (~wh.resp.success /\ ~wh.event_read)

\* no secret configured: an order.completed event signed with a guessed key
\* has been processed
C13_Witness ==
    /\ wh.called /\ env.SELLAUTH_WEBHOOK_SECRET = ""
    /\ wh.signature = hexdigest("guess", wh.body.raw)
    /\ wh.body.event = "order.completed"
    /\ wh.resp.success /\ wh.handled = "order.completed"

-----------------------------------------------------------------------------
(* Validate-only                                                           *)

\* the redeem handler's validity step, run for the code of request q in the
\* current state
RedeemTwin(q) == redeem_check([q EXCEPT !.kind = "redeem"], codes, history, orders, now).req

\* C14: validate-code passes its validity step exactly when the redeem
\* flow's validity step passes for the same normalised code in the same
\* store state at the same time, and when it does not pass it gives the
\* answer redeem gives; it reports valid only after passing; no step of a
\* validate-code request changes the codes table, the redemption history or
\* the gateway's orders.
C14_ValidateSameCheck ==
    [][\A r \in Reqs :
        /\ (reqs[r].kind = "validate" /\ reqs[r].pc = "check" /\ reqs'[r].pc # "check") =>
              /\ (reqs'[r].pc = "lookup") = (RedeemTwin(reqs[r]).pc = "lookup")
              /\ reqs'[r].pc = "done" => reqs'[r].resp = RedeemTwin(reqs[r]).resp
        /\ (reqs'[r].kind = "validate" /\ reqs'[r].pc = "done" /\ reqs'[r].resp.success /\ reqs[r].pc # "done") =>
              /\ reqs[r].pc = "lookup"
              /\ is_code_valid(codes, now, reqs[r].code).b
        /\ (reqs'[r].kind = "validate" /\ reqs'[r] # reqs[r]) =>
              /\ codes' = codes
              /\ history' = history
              /\ orders' = orders
    ]_vars

\* a validate-code request has been answered for a code that exists, is
\* unused and has not expired, while the store also holds a used code
C14_Witness ==
    \E r \in StoreReqs, d \in DOMAIN codes :
        /\ reqs[r].kind = "validate" /\ reqs[r].pc = "done"
        /\ ClaimValid(codes, now, reqs[r].code)
        /\ reqs[r].resp = RedeemTwin(reqs[r]).resp
        /\ codes[d].status = "used"

-----------------------------------------------------------------------------
(* Code uniqueness                                                         *)

\* C15: in every store state, add_code on a code value already in the store
\* returns false and leaves the table as it is; on a code value not in the
\* store it returns true and adds one row with status 'unused', created date
\* now, the given attributes and empty used-by fields, leaving every other
\* row as it is.
C15_AddCodeUnique ==
    \A code \in CodeValues, offer \in Offers, days \in ExpiryDays :
        LET r == add_code(codes, now, code, offer.service_id, offer.quantity, offer.platform,
                          offer.service_type, "", days, FALSE)
        IN IF code \in DOMAIN codes
           THEN ~r.ret /\ r.codes = codes
           ELSE /\ r.ret
                /\ DOMAIN r.codes = DOMAIN codes \cup {code}
                /\ \A d \in DOMAIN codes : r.codes[d] = codes[d]
                /\ r.codes[code].status = "unused"
                /\ r.codes[code].created_date = now
                /\ r.codes[code].service_id = offer.service_id
                /\ r.codes[code].quantity = offer.quantity
                /\ r.codes[code].platform = offer.platform
                /\ r.codes[code].service_type = offer.service_type
                /\ r.codes[code].expiry_days = days
                /\ r.codes[code].used_date = NullInt
                /\ r.codes[code].used_by_user_id = NullText
                /\ r.codes[code].order_id = NullInt

\* the store holds a used code created earlier, for which add_code with
\* other attributes is turned down, and lacks another code value
C15_Witness ==
    \E c \in DOMAIN codes, offer \in Offers :
        /\ codes[c].status = "used" /\ codes[c].created_date < now
        /\ offer.service_id # codes[c].service_id
        /\ ~add_code(codes, now, c, offer.service_id, offer.quantity, offer.platform,
                     offer.service_type, "", 1, FALSE).ret
        /\ CodeValues \ DOMAIN codes # {}

-----------------------------------------------------------------------------
(* Gateway client errors                                                   *)

\* C16: every SMBApiClient operation sends exactly one HTTP request, and
\* when the request fails in transport (timeout, connection error, HTTP error
\* status) the operation returns a payload that holds an 'error' key.
C16_ErrorPayload ==
    /\ cl.http_requests = Len(cl.log)
    /\ \A i \in DOMAIN cl.log :
          cl.log[i].outcome \in TransportFailures =>
              /\ cl.log[i].value.kind = "dict"
              /\ cl.log[i].value.error # NullText

-----------------------------------------------------------------------------
(* Search                                                                  *)

\* the elements of a list
Range(seq) == { seq[i] : i \in DOMAIN seq }

\* the request names no filter
NoFilters ==
    /\ sr.body.max_price = NullInt /\ sr.body.min_quantity = NullInt /\ sr.body.max_quantity = NullInt
    /\ ~sr.body.refill_only /\ ~sr.body.no_drop

\* C18: the search result holds services of the gateway's list, none more
\* often than the list does, in ascending order of rate; with an empty query
\* and no filters it holds every service; with max_price = X no rate in it
\* exceeds X; with refill_only every service in it has the refill flag; with
\* a non-empty query every service in it has each query word in its
\* lower-cased name, category or type.
C18_SearchFilters ==
    sr.called =>
        /\ Range(sr.services) \subseteq Range(sr.services_list)
        /\ \A i \in DOMAIN sr.services, j \in DOMAIN sr.services : i # j => sr.services[i] # sr.services[j]
        /\ \A i \in DOMAIN sr.services, j \in DOMAIN sr.services :
              i < j => rate_of(sr.services[i]) <= rate_of(sr.services[j])
        /\ (get_or(sr.body.query, "") = "" /\ NoFilters) => Range(sr.services) = Range(sr.services_list)
        /\ sr.body.max_price # NullInt =>
              \A i \in DOMAIN sr.services :
                  sr.services[i].rate # NullText /\ float(sr.services[i].rate) <= sr.body.max_price
        /\ sr.body.refill_only => \A i \in DOMAIN sr.services : sr.services[i].refill
        /\ get_or(sr.body.query, "") # "" =>
              \A i \in DOMAIN sr.services :
                  \A w \in Range(split(lower(sr.body.query))) :
                      \/ Contains(lower(sr.services[i].name), w)
                      \/ Contains(lower(sr.services[i].category), w)
                      \/ Contains(lower(sr.services[i].type), w)

\* the gateway lists the service priced 10 before the one priced 0.90; a
\* search without query or filter returns both, the cheaper first
C18_Witness ==
    /\ sr.called /\ get_or(sr.body.query, "") = "" /\ NoFilters
    /\ Len(sr.services_list) = 2
    /\ sr.services_list[1].rate = "10" /\ sr.services_list[2].rate = "0.90"
    /\ sr.services = <<sr.services_list[2], sr.services_list[1]>>

-----------------------------------------------------------------------------
(* Concurrent redemption                                                   *)

\* C20: with two redeem requests for the same valid code in flight, both at
\* the validity step and neither having marked the code, a request that
\* takes that step passes it and goes on towards its remote order.
C20_BothPassCheck ==
    [][\A r1 \in Reqs, r2 \in Reqs :
        ( /\ r1 # r2
          /\ reqs[r1].kind = "redeem" /\ reqs[r2].kind = "redeem"
          /\ reqs[r1].code = reqs[r2].code
          /\ reqs[r1].pc = "check" /\ reqs[r2].pc \in {"check", "lookup", "order"}
          /\ ClaimValid(codes, now, reqs[r1].code)
          /\ LinkAcceptable(reqs[r1].link, codes[reqs[r1].code])
          /\ reqs'[r1].pc # "check" )
        => reqs'[r1].pc = "lookup"
    ]_vars

-----------------------------------------------------------------------------
(* mark_code_used as an unconditional update                               *)

MarkUsers == {"bot_user", "second_user"}
MarkOrders == {900, 901}

\* C23: in every store state, mark_code_used returns true for every code
\* value; on a code value not in the store it leaves the table as it is; on a
\* code in the store, used or not, it sets status to 'used' and used_date,
\* used_by_user_id and order_id to the new values, and changes no other
\* field, no other row and not the set of rows.
C23_MarkUnconditional ==
    \A code \in ProbeCodes, u \in MarkUsers, o \in MarkOrders :
        LET r == mark_code_used(codes, now, code, u, o)
        IN /\ r.ret
           /\ DOMAIN r.codes = DOMAIN codes
           /\ \A d \in DOMAIN codes \ {code} : r.codes[d] = codes[d]
           /\ code \notin DOMAIN codes => r.codes = codes
           /\ code \in DOMAIN codes =>
                 /\ r.codes[code].status = "used"
                 /\ r.codes[code].used_date = now
                 /\ r.codes[code].used_by_user_id = u
                 /\ r.codes[code].order_id = o
                 /\ r.codes[code] = [codes[code] EXCEPT !.status = "used", !.used_date = now,
                                                        !.used_by_user_id = u, !.order_id = o]

\* the store holds a code marked used earlier by one user, which a second
\* mark by another user with another order overwrites, and lacks another
\* code value
C23_Witness ==
    \E c \in DOMAIN codes :
        /\ codes[c].status = "used" /\ codes[c].used_date < now
        /\ codes[c].used_by_user_id = "bot_user" /\ codes[c].order_id = 900
        /\ mark_code_used(codes, now, c, "second_user", 901).codes[c] # codes[c]
        /\ ProbeCodes \ DOMAIN codes # {}

-----------------------------------------------------------------------------
(* Who writes the codes table and the history                              *)

\* a step in which one of the listed endpoints answers a request
ReadStep == adm' # adm \/ wh' # wh \/ sr' # sr \/ sv' # sv \/ ur' # ur

\* C24: a step in which the services listing, the search, the
\* user-redemptions listing, an admin endpoint or the webhook answers leaves
\* the codes table and the redemption history as they are; the set of code
\* rows changes only by an add_code of a new code value, and a row that
\* exists changes only by a mark_code_used of that code.
C24_ReadOnlyEndpoints ==
    [][ /\ ReadStep => UNCHANGED <<codes, history>>
        /\ DOMAIN codes' # DOMAIN codes =>
              \E code \in CodeValues \ DOMAIN codes, offer \in Offers, days \in ExpiryDays :
                  codes' = add_code(codes, now, code, offer.service_id, offer.quantity, offer.platform,
                                    offer.service_type, "", days, FALSE).codes
        /\ (\E c \in DOMAIN codes : c \in DOMAIN codes' /\ codes'[c] # codes[c]) =>
              \E code \in DOMAIN codes, u \in OtherUsers, o \in OtherOrders :
                  codes' = mark_code_used(codes, now, code, u, o).codes
      ]_vars

\* the webhook has processed a signed order.refunded event while the store
\* holds a used code and a history record
C24_Witness ==
    /\ wh.called /\ wh.handled = "order.refunded" /\ wh.resp.success
    /\ \E c \in DOMAIN codes : codes[c].status = "used"
    /\ history # <<>>

-----------------------------------------------------------------------------
(* The service list cannot be fetched                                      *)

\* C26: when the gateway does not deliver the service list, the services
\* listing answers success=false with the message 'Failed to fetch services'
\* and not with HTTP 500, and so does the search.
C26_FetchFailureAnswered ==
    /\ sv.called /\ sv.outcome # "json_list" =>
          /\ ~sv.resp.success
          /\ sv.resp.message = "Failed to fetch services"
          /\ sv.resp.http # 500
    /\ sr.called /\ sr.services_list = <<>> =>
          /\ ~sr.resp.success
          /\ sr.resp.message = "Failed to fetch services"
          /\ sr.resp.http # 500

-----------------------------------------------------------------------------
(* The result of generate_codes                                            *)

\* the slots of a run for which no add_code call succeeded
FailedSlots == { k \in DOMAIN gen.slots : ~gen.slots[k].succeeded }

\* C27: a run makes at most 6 add_code calls for a slot; the codes it has
\* generated are one per slot with a successful insert, at most count,
\* distinct and in the store as 'unused'; and when the run has ended, the
\* slots it reports as failed are those for which no attempt succeeded.
C27_GenerateCodes ==
    /\ \A k \in DOMAIN gen.slots : gen.slots[k].attempts <= 6
    /\ Len(gen.slots) <= gen.count
    /\ Len(gen.generated) = Cardinality(DOMAIN gen.slots \ FailedSlots)
    /\ Len(gen.generated) <= gen.count
    /\ \A a \in DOMAIN gen.generated, b \in DOMAIN gen.generated :
          a # b => gen.generated[a] # gen.generated[b]
    /\ \A a \in DOMAIN gen.generated :
          /\ gen.generated[a] \in DOMAIN codes
          /\ codes[gen.generated[a]].status = "unused"
    /\ gen.pc = "done" => Len(gen.failed) = Cardinality(FailedSlots)

====
